---- MODULE Spec2Model ----
(***************************************************************************)
(* ClarityOS Bridge: the TCP bridge server (lib/server.ts), the start and  *)
(* stop commands (commands/bridge.start.ts, commands/bridge.stop.ts) and   *)
(* the activation glue (extension.ts) as a state machine.                  *)
(*                                                                         *)
(* One action is one turn of the single-threaded event loop: a command, a  *)
(* socket event, the continuation of an awaited host call.  Callbacks that *)
(* Node defers with process.nextTick run before any other event and are    *)
(* part of the action that schedules them.                                 *)
(***************************************************************************)
EXTENDS Integers, Sequences, FiniteSets, TLC

\* ------------------------------------------------------------------ bounds
MaxStarts == 2
MaxConns == 2
MaxChunks == 2
MaxAppends == 1003
MaxGets == 1
MaxSubReqs == 4
MaxEvents == 2
MaxHookReqs == 3
MaxCodeLen == 3
MaxEvalConns == 1
MaxSharers == 2
MaxViewReqs == 4
MaxConfigReqs == 3
MaxLoads == 3
MaxLogs == 2

\* ------------------------------------------------------- program constants
Capacity == 1000
DefaultLines == 100

Inst == 1 .. MaxStarts
Urls == {"u1", "u2"}

\* The names a client registers configs under, and the file they are in.
ConfigNames == {"cfg", "constructor"}
ConfigPath == "/cfg.js"

\* What every object has from Object.prototype, as far as the names go.
ObjectPrototype == {"constructor"}

NoConfig == [id |-> 0, filePath |-> ""]

\* The case labels of executeCommand's switch.
KnownMethods ==
  {"restartExtension", "eval", "webview", "registerConfig", "unregisterConfig",
   "listConfigs", "subscribe", "unsubscribe", "listSubscribers", "getOutput",
   "status"}

\* The `available` array of the default case.
Available ==
  <<"eval", "webview", "registerConfig", "unregisterConfig", "listConfigs",
    "subscribe", "unsubscribe", "listSubscribers", "status", "restartExtension">>

\* ------------------------------------------------------------- JS helpers
Min(a, b) == IF a < b THEN a ELSE b
Max(a, b) == IF a > b THEN a ELSE b
Range(s) == {s[k] : k \in 1 .. Len(s)}
Has(r, f) == f \in DOMAIN r

\* JavaScript values as far as the bridge looks at them.
Undef == [type |-> "undefined"]
Num(n) == [type |-> "number", num |-> n]
Obj(f) == [type |-> "object", fields |-> f]

\* Array.prototype.slice(start) with one (integer) argument.
Slice(a, start) ==
  LET from == IF start < 0 THEN Max(Len(a) + start, 0) ELSE Min(start, Len(a))
  IN  SubSeq(a, from + 1, Len(a))

\* Set.prototype.add / delete on an insertion-ordered Set<string>.
SetAddDup(s, u) == Append(s, u)
SetAdd(s, u) == IF u \in Range(s) THEN s ELSE Append(s, u)
SetDeleteNothing(s, u) == s
SetDelete(s, u) == SelectSeq(s, LAMBDA x : x # u)

\* --------------------------------------------------------- output history
\* A line of the output channel: what kind of line it is and the text that
\* the template interpolates into it.
Line(tag, text) == <<tag, text>>

\* The wrapper installed on outputChannel.appendLine, for one outputHistory.
PushEvictNewest(h, line) ==
  LET p == Append(h, line)
  IN  IF Len(p) > Capacity THEN SubSeq(p, 1, Capacity) ELSE p
PushNoShift(h, line) == Append(h, line)
Push(h, line) ==
  LET p == Append(h, line)
  IN  IF Len(p) > Capacity THEN Tail(p) ELSE p

\* outputChannel.appendLine(value).  Every startBridgeServer call wraps the
\* appendLine of the one channel object of global.bridgeConfig, so a line goes
\* through the wrappers of all n instances created so far.
AppendLine(hist, n, line) ==
  [i \in Inst |-> IF i <= n THEN Push(hist[i], line) ELSE hist[i]]

RECURSIVE AppendLines(_, _, _)
AppendLines(hist, n, lines) ==
  IF lines = <<>> THEN hist
  ELSE AppendLines(AppendLine(hist, n, Head(lines)), n, Tail(lines))

\* ---------------------------------------------------------------- progress
\* onProgress?.(event): the event goes to the hook of the params, when the
\* params have one.
OnProgressTwice(hook, events, event) ==
  IF hook THEN Append(Append(events, event), event) ELSE events
OnProgress(hook, events, event) == IF hook THEN Append(events, event) ELSE events

\* { type: 'executing', method } and { type: 'ready', port }, with the
\* instance whose hook gets the event.
Executing(i, req) ==
  [inst |-> i, type |-> "executing",
   method |-> IF Has(req, "method") THEN req.method ELSE "undefined"]
Ready(i) == [inst |-> i, type |-> "ready", port |-> 9485]

VARIABLES
  bridgeInstance,   \* global.bridgeInstance: 0 (undefined) or an instance
  nInst,            \* number of startBridgeServer calls so far
  listening,        \* per instance: the net.Server holds the listening socket
  subscribers,      \* per instance: the Set<string>, in insertion order
  outputHistory,    \* per instance: the retained lines
  closeWaiters,     \* per instance: callbacks waiting for the server's 'close'
  disposeCalls,     \* per instance: promises returned by dispose
  disposeResolved,  \* per instance: of these, resolved
  portOther,        \* another process holds port 9485
  conns,            \* accepted sockets, in accept order
  subscriptions,    \* disposables the start command pushed on the context
  lastMessage,      \* what the command last showed to the user
  phase,            \* extension: "active", "deactivated", "disposed"
  logSeq,           \* console.log calls made by eval scripts so far
  awaiting,         \* terminal-change listeners waiting for terminal.processId
  nEvents,          \* broadcast calls so far
  posts,            \* the fetch calls of all broadcasts, in call order
  restartQueue,     \* setImmediate callbacks of restartExtension, by connection
  restarts,         \* restartExtensionHost commands executed
  unhandled,        \* terminal-change listeners that ended with a TypeError
  onProgress,       \* global.bridgeConfig has an onProgress hook
  progress,         \* the events handed to params.onProgress, in call order
  panels,           \* webview manager: the keys of the panels Map
  watchers,         \* webview manager: the keys of the watchers Map
  registry,         \* config registry: .clarityos-configs.json, in key order
  activeConfigs,    \* config registry: per name, the entry of the Map
  loads,            \* config registry: per name, activate() calls so far
  disposals,        \* config registry: per name, the instances disposed
  closes,           \* config registry: per name, the watchers closed
  fileOk            \* the file at ConfigPath can be required and activated

hookVars == <<awaiting, nEvents, posts, unhandled, onProgress>>
hostVars == <<restartQueue, restarts>>
managerVars ==
  <<panels, watchers, registry, activeConfigs, loads, disposals, closes, fileOk>>

vars ==
  <<bridgeInstance, nInst, listening, subscribers, outputHistory, closeWaiters,
    disposeCalls, disposeResolved, portOther, conns, subscriptions, lastMessage,
    phase, logSeq, hookVars, hostVars, progress, managerVars>>

ConnIds == 1 .. Len(conns)
OpenConnsOf(cs, i) == {c \in 1 .. Len(cs) : cs[c].inst = i /\ cs[c].open}

\* ------------------------------------------------------------ server close
\* The server's 'close' event: emitted once the listening handle is gone and
\* no accepted socket is left; every waiting dispose callback then logs and
\* resolves its promise.
CloseLine(kind) ==
  IF kind = "ok" THEN Line("Server closed", "") ELSE Line("Error closing server", "")

DrainEager(i, lst, w, hist, res, cs, n) ==
  IF w[i] # <<>>
  THEN [listening |-> lst,
        waiters |-> [w EXCEPT ![i] = <<>>],
        hist |-> AppendLines(hist, n, [k \in 1 .. Len(w[i]) |-> CloseLine(w[i][k])]),
        resolved |-> [res EXCEPT ![i] = @ + Len(w[i])]]
  ELSE [listening |-> lst, waiters |-> w, hist |-> hist, resolved |-> res]
Drain(i, lst, w, hist, res, cs, n) ==
  IF ~lst[i] /\ OpenConnsOf(cs, i) = {} /\ w[i] # <<>>
  THEN [listening |-> lst,
        waiters |-> [w EXCEPT ![i] = <<>>],
        hist |-> AppendLines(hist, n, [k \in 1 .. Len(w[i]) |-> CloseLine(w[i][k])]),
        resolved |-> [res EXCEPT ![i] = @ + Len(w[i])]]
  ELSE [listening |-> lst, waiters |-> w, hist |-> hist, resolved |-> res]

\* dispose() called k times in one turn on instance i: server.close(cb) hands
\* cb an error when the server holds no listening handle.
DisposeKeepsPort(i, k, lst, w, hist, res, cs, n) ==
  Drain(i, lst, [w EXCEPT ![i] = @ \o [j \in 1 .. k |-> "err"]], hist, res, cs, n)
DisposeN(i, k, lst, w, hist, res, cs, n) ==
  LET kinds == [j \in 1 .. k |-> IF j = 1 /\ lst[i] THEN "ok" ELSE "err"]
  IN  Drain(i, [lst EXCEPT ![i] = FALSE], [w EXCEPT ![i] = @ \o kinds],
            hist, res, cs, n)

\* ------------------------------------------------------------- lifecycle
\* new Set<string>(): the subscribers of an instance that is being created.
InheritedSet == IF nInst = 0 THEN <<>> ELSE subscribers[nInst]
NewSet == <<>>

PortFree == ~portOther /\ \A i \in Inst : ~listening[i]

\* startBridgeServer: the wrapper is installed, two lines are logged, listen()
\* binds; the 'listening' callback or the 'error' handler logs the outcome.
StartLines(bound) ==
  <<Line("CLI Bridge Started", ""), Line("Listening on port", "9485")>> \o
  (IF bound
   THEN <<Line("Server is ready", "")>>
   ELSE <<Line("Port already in use", "9485"), Line("Run: lsof | xargs kill", "")>>)

\* commands/bridge.start.ts execute().
StartCommand ==
  /\ phase = "active"
  /\ IF bridgeInstance # 0
     THEN /\ lastMessage' = "Bridge already running"
          /\ UNCHANGED <<bridgeInstance, nInst, listening, subscribers, outputHistory,
                         subscriptions, progress>>
     ELSE /\ nInst < MaxStarts
          /\ nInst' = nInst + 1
          /\ listening' = [listening EXCEPT ![nInst + 1] = PortFree]
          /\ subscribers' = [subscribers EXCEPT ![nInst + 1] = NewSet]
          /\ outputHistory' = AppendLines(outputHistory, nInst + 1, StartLines(PortFree))
          /\ progress' = IF PortFree THEN OnProgress(onProgress, progress, Ready(nInst + 1)) ELSE progress
          /\ bridgeInstance' = nInst + 1
          /\ subscriptions' = subscriptions + 1
          /\ lastMessage' = "ClarityOS Bridge started on port 9485"
  /\ UNCHANGED <<closeWaiters, disposeCalls, disposeResolved,
                 portOther, conns, phase, logSeq, hookVars, hostVars, managerVars>>

\* commands/bridge.stop.ts execute(): dispose() is called, not awaited.
StopCommand ==
  /\ phase = "active"
  /\ IF bridgeInstance = 0
     THEN /\ lastMessage' = "Bridge not running"
          /\ UNCHANGED <<bridgeInstance, listening, outputHistory, closeWaiters,
                         disposeCalls, disposeResolved>>
     ELSE LET d == DisposeN(bridgeInstance, 1, listening, closeWaiters,
                            outputHistory, disposeResolved, conns, nInst)
          IN  /\ listening' = d.listening
              /\ closeWaiters' = d.waiters
              /\ outputHistory' = d.hist
              /\ disposeResolved' = d.resolved
              /\ disposeCalls' = [disposeCalls EXCEPT ![bridgeInstance] = @ + 1]
              /\ bridgeInstance' = 0
              /\ lastMessage' = "ClarityOS Bridge stopped"
  /\ UNCHANGED <<nInst, subscribers, portOther, conns, subscriptions, phase, logSeq, hookVars, hostVars, progress, managerVars>>

\* extension.ts deactivate(): dispose() on the recorded instance, which stays
\* recorded.
Deactivate ==
  /\ phase = "active"
  /\ phase' = "deactivated"
  /\ IF bridgeInstance = 0
     THEN UNCHANGED <<listening, outputHistory, closeWaiters, disposeCalls,
                      disposeResolved>>
     ELSE LET d == DisposeN(bridgeInstance, 1, listening, closeWaiters,
                            outputHistory, disposeResolved, conns, nInst)
          IN  /\ listening' = d.listening
              /\ closeWaiters' = d.waiters
              /\ outputHistory' = d.hist
              /\ disposeResolved' = d.resolved
              /\ disposeCalls' = [disposeCalls EXCEPT ![bridgeInstance] = @ + 1]
  /\ UNCHANGED <<bridgeInstance, nInst, subscribers, portOther, conns,
                 subscriptions, lastMessage, logSeq, hookVars, hostVars, progress, managerVars>>

\* Another process binds or releases port 9485.
OtherBind ==
  /\ PortFree
  /\ portOther' = TRUE
  /\ UNCHANGED <<bridgeInstance, nInst, listening, subscribers, outputHistory,
                 closeWaiters, disposeCalls, disposeResolved, conns,
                 subscriptions, lastMessage, phase, logSeq, hookVars, hostVars, progress, managerVars>>

OtherRelease ==
  /\ portOther
  /\ portOther' = FALSE
  /\ UNCHANGED <<bridgeInstance, nInst, listening, subscribers, outputHistory,
                 closeWaiters, disposeCalls, disposeResolved, conns,
                 subscriptions, lastMessage, phase, logSeq, hookVars, hostVars, progress, managerVars>>

\* --------------------------------------------------------------- requests
\* What arrives in one 'data' event: bytes that JSON.parse rejects, the JSON
\* value null, or a JSON object.  A request object may lack params, and params
\* may lack any field.
BadChunk == [kind |-> "bad"]
NullChunk == [kind |-> "null"]
Request(req) == [kind |-> "json", value |-> req]

ErrorMsg(text) == <<text>>
TypeErrorMsg == ErrorMsg("TypeError: Cannot read properties of undefined")

\* ------------------------------------------------------------ eval scripts
\* The text of an eval script as a sequence of lexical pieces: the literal
\* 42, a call that throws, a call that returns a promise of the host, a call
\* that returns the object {error: "disk full"}, the word return, a blank, a
\* newline, a semicolon; the wrapper adds parentheses.
Reported == Obj([error |-> <<"disk full">>])
Blank == {"sp", "nl"}
Separator == {"nl", "semi"}
Operand == {"42", "fail()", "wait()", "report()"}
WordStart(t) == t \in {"return", "42", "fail()", "wait()", "report()"}
WordEnd(t) == t \in {"return", "42"}

\* String.prototype.trim.
RECURSIVE TrimStart(_)
TrimStart(code) ==
  IF code # <<>> /\ Head(code) \in Blank THEN TrimStart(Tail(code)) ELSE code
RECURSIVE TrimEnd(_)
TrimEnd(code) ==
  IF code # <<>> /\ code[Len(code)] \in Blank
  THEN TrimEnd(SubSeq(code, 1, Len(code) - 1))
  ELSE code
Trim(code) == TrimEnd(TrimStart(code))

\* /\breturn\b/.test(code)
HasExplicitReturn(code) ==
  \E k \in 1 .. Len(code) :
    /\ code[k] = "return"
    /\ (k = 1 \/ ~WordEnd(code[k - 1]))
    /\ (k = Len(code) \/ ~WordStart(code[k + 1]))

\* !code.includes('\n') && !code.includes(';')
IsSingleExpression(code) == \A k \in 1 .. Len(code) : code[k] \notin Separator

\* `return (${code})`
Wrap(code) == <<"return", "sp", "(">> \o code \o <<")">>

\* The function body that eval hands to the AsyncFunction constructor.
EvalBody(code) ==
  LET trimmed == Trim(code)
  IN  IF ~HasExplicitReturn(trimmed) /\ IsSingleExpression(trimmed)
      THEN Wrap(trimmed)
      ELSE trimmed

\* The statements of a body: the pieces between newlines and semicolons.
RECURSIVE Statements(_, _)
Statements(body, cur) ==
  IF body = <<>> THEN <<cur>>
  ELSE IF Head(body) \in Separator
       THEN <<cur>> \o Statements(Tail(body), <<>>)
       ELSE Statements(Tail(body), Append(cur, Head(body)))

\* Two pieces that touch and read as one word.
Glued(stmt) ==
  \E k \in 1 .. Len(stmt) - 1 : WordEnd(stmt[k]) /\ WordStart(stmt[k + 1])

\* What a statement is, blanks aside.
Classify(stmt) ==
  LET t == SelectSeq(stmt, LAMBDA x : x # "sp")
      Parens(e) == Len(e) = 3 /\ e[1] = "(" /\ e[2] \in Operand /\ e[3] = ")"
  IN  IF Glued(stmt) THEN [form |-> "invalid"]
      ELSE IF t = <<>> THEN [form |-> "empty"]
      ELSE IF Len(t) = 1 /\ t[1] \in Operand THEN [form |-> "expression", operand |-> t[1]]
      ELSE IF Parens(t) THEN [form |-> "expression", operand |-> t[2]]
      ELSE IF t = <<"return">> THEN [form |-> "return"]
      ELSE IF Len(t) = 2 /\ t[1] = "return" /\ t[2] \in Operand
           THEN [form |-> "return", operand |-> t[2]]
      ELSE IF t[1] = "return" /\ Parens(Tail(t))
           THEN [form |-> "return", operand |-> t[3]]
      ELSE [form |-> "invalid"]

\* Running the statements of an async function body in order.
RECURSIVE RunStatements(_)
RunStatements(stmts) ==
  IF stmts = <<>> THEN [kind |-> "return", value |-> Undef]
  ELSE LET st == Classify(Head(stmts))
       IN  IF st.form = "empty" THEN RunStatements(Tail(stmts))
           ELSE IF st.form = "expression"
                THEN IF st.operand = "fail()"
                     THEN [kind |-> "throw", value |-> <<"Error: script failed">>]
                     ELSE RunStatements(Tail(stmts))
           ELSE IF ~Has(st, "operand") THEN [kind |-> "return", value |-> Undef]
           ELSE IF st.operand = "42" THEN [kind |-> "return", value |-> Num(42)]
           ELSE IF st.operand = "report()" THEN [kind |-> "return", value |-> Reported]
           ELSE IF st.operand = "fail()"
                THEN [kind |-> "throw", value |-> <<"Error: script failed">>]
           ELSE [kind |-> "suspend", value |-> Undef]

\* new AsyncFunction(..., body) and the call of the function: a body that
\* does not parse throws before anything runs.
RunBody(body) ==
  LET stmts == Statements(body, <<>>)
  IN  IF \E k \in 1 .. Len(stmts) : Classify(stmts[k]).form = "invalid"
      THEN [kind |-> "throw", value |-> <<"SyntaxError">>]
      ELSE RunStatements(stmts)

\* ------------------------------------------------------- webview manager
\* A view name and a key of the watchers Map are strings, written here as
\* sequences of pieces: the letters of the name, the underscore, and the
\* words that the manager appends.
ViewNames == {<<"a">>, <<"a", "_", "b">>, <<"b">>}

\* manifest.watch of a view on disk: every view watches one data file.
WatchFiles == <<"data.jsonl">>

\* `${viewName}_data_${index}`, viewName + '_html', `${viewName}_css`,
\* `${viewName}_js`
WatcherKeys(viewName) ==
  {viewName \o <<"_", "data", "_", ToString(k - 1)>> : k \in 1 .. Len(WatchFiles)}
  \cup {viewName \o <<"_", "html">>, viewName \o <<"_", "css">>, viewName \o <<"_", "js">>}

\* String.prototype.startsWith
StartsWith(key, prefix) ==
  Len(prefix) <= Len(key) /\ SubSeq(key, 1, Len(prefix)) = prefix

\* openView(params): an open view is revealed; a view without index.html is
\* reported and not opened; else the panel is created and its watchers set.
OpenView(st, viewName, found) ==
  IF viewName \in st.panels \/ ~found THEN st
  ELSE [st EXCEPT !.panels = @ \cup {viewName},
                  !.watchers = @ \cup WatcherKeys(viewName)]

\* The panel.onDidDispose callback of the panel of viewName.
OnDidDispose(st, viewName) ==
  [st EXCEPT !.panels = @ \ {viewName},
             !.watchers = {key \in @ : ~StartsWith(key, viewName \o <<"_">>)}]

\* ------------------------------------------------------- config registry
\* registry[name] = filePath, !registry[name] and delete registry[name] on
\* the object parsed from the registry file; its keys keep insertion order.
RegistrySet(reg, name, filePath) ==
  IF \E k \in 1 .. Len(reg) : reg[k].name = name
  THEN [k \in 1 .. Len(reg) |->
          IF reg[k].name = name THEN [name |-> name, filePath |-> filePath] ELSE reg[k]]
  ELSE Append(reg, [name |-> name, filePath |-> filePath])
RegistryHas(reg, name) ==
  (\E k \in 1 .. Len(reg) : reg[k].name = name) \/ name \in ObjectPrototype
RegistryDelete(reg, name) == SelectSeq(reg, LAMBDA e : e.name # name)

\* The entry of name is disposed, its watcher closed, and it leaves the Map.
Release(st, name) ==
  IF st.active[name].id = 0 THEN st
  ELSE [st EXCEPT !.disposals[name] = Append(@, st.active[name].id),
                  !.closes[name] = Append(@, st.active[name].id),
                  !.active[name] = NoConfig]

\* loadConfig(params): the old entry is released; then the module is
\* required and activated and its file watched, unless the file as it is on
\* disk now fails to load.
LoadConfig(st, name, filePath) ==
  LET s1 == Release(st, name)
  IN  IF st.fileOk
      THEN [s1 EXCEPT !.loads[name] = @ + 1,
                      !.active[name] = [id |-> s1.loads[name] + 1, filePath |-> filePath]]
      ELSE s1

\* register(params)
Register(st, name, filePath) ==
  LoadConfig([st EXCEPT !.registry = RegistrySet(@, name, filePath)], name, filePath)

\* unregister(params): the entry is released before the registry file is
\* written; when the write fails the file keeps the name.
Unregister(st, name, writable) ==
  IF ~RegistryHas(st.registry, name) THEN st
  ELSE IF writable
       THEN [Release(st, name) EXCEPT !.registry = RegistryDelete(@, name)]
       ELSE Release(st, name)

\* list()
ListConfigs(reg, active) ==
  [k \in 1 .. Len(reg) |->
     [name |-> reg[k].name, filePath |-> reg[k].filePath,
      active |-> active[reg[k].name].id # 0]]

\* The state of the two managers that global.bridgeConfig hands to the server.
Managers ==
  [panels |-> panels, watchers |-> watchers, registry |-> registry,
   active |-> activeConfigs, loads |-> loads, disposals |-> disposals,
   closes |-> closes, fileOk |-> fileOk]

SetManagers(st) ==
  /\ panels' = st.panels
  /\ watchers' = st.watchers
  /\ registry' = st.registry
  /\ activeConfigs' = st.active
  /\ loads' = st.loads
  /\ disposals' = st.disposals
  /\ closes' = st.closes
  /\ fileOk' = st.fileOk

\* The registry files that an earlier session can have left in the workspace.
PersistedRegistries == {<<>>, <<[name |-> "cfg", filePath |-> ConfigPath]>>}

\* createWebviewManager and createConfigRegistry, as activate() calls them:
\* the Maps are empty, then every entry of the registry file is loaded.
RECURSIVE LoadAll(_, _)
LoadAll(st, entries) ==
  IF entries = <<>> THEN st
  ELSE LoadAll(LoadConfig(st, Head(entries).name, Head(entries).filePath),
               Tail(entries))
CreateManagers(reg, ok) ==
  LoadAll([panels |-> {}, watchers |-> {}, registry |-> reg,
           active |-> [n \in ConfigNames |-> NoConfig],
           loads |-> [n \in ConfigNames |-> 0],
           disposals |-> [n \in ConfigNames |-> <<>>],
           closes |-> [n \in ConfigNames |-> <<>>],
           fileOk |-> ok],
          reg)

\* The host disposes the panels that openView pushed on the context: the
\* onDidDispose callback of each open panel runs.
RECURSIVE DisposePanels(_)
DisposePanels(st) ==
  IF st.panels = {} THEN st
  ELSE DisposePanels(OnDidDispose(st, CHOOSE v \in st.panels : TRUE))

\* ------------------------------------------------------------------- Init
\* The state after activate(): nothing started, the config stored, with or
\* without an onProgress hook in it; the configs that the registry file of
\* the workspace names are loaded.
Init ==
  /\ bridgeInstance = 0
  /\ nInst = 0
  /\ listening = [i \in Inst |-> FALSE]
  /\ subscribers = [i \in Inst |-> <<>>]
  /\ outputHistory = [i \in Inst |-> <<>>]
  /\ closeWaiters = [i \in Inst |-> <<>>]
  /\ disposeCalls = [i \in Inst |-> 0]
  /\ disposeResolved = [i \in Inst |-> 0]
  /\ portOther = FALSE
  /\ conns = <<>>
  /\ subscriptions = 0
  /\ lastMessage = "none"
  /\ phase = "active"
  /\ logSeq = 0
  /\ awaiting = 0
  /\ nEvents = 0
  /\ posts = <<>>
  /\ restartQueue = <<>>
  /\ restarts = 0
  /\ unhandled = 0
  /\ onProgress \in BOOLEAN
  /\ progress = <<>>
  /\ \E reg \in PersistedRegistries, ok \in BOOLEAN :
       LET st == CreateManagers(reg, ok)
       IN  /\ panels = st.panels
           /\ watchers = st.watchers
           /\ registry = st.registry
           /\ activeConfigs = st.active
           /\ loads = st.loads
           /\ disposals = st.disposals
           /\ closes = st.closes
           /\ fileOk = st.fileOk

\* activate() as extension.ts wires it, in a workspace without a registry
\* file: no hook in the config, no config registered, a config file that loads.
InitWired == Init /\ ~onProgress /\ registry = <<>> /\ fileOk

\* The same workspace, and a caller's config with or without the hook.
InitHook == Init /\ registry = <<>> /\ fileOk

\* The extension as wired, in any workspace.
InitWorkspace == Init /\ ~onProgress

\* setImmediate(callback), for the callback of connection c's request.
CallNow(queue, done, c) == [queue |-> queue, done |-> done + 1]
SetImmediate(queue, done, c) == [queue |-> Append(queue, c), done |-> done]

\* executeCommand(request) up to its first suspension.  subs and h are the
\* instance's subscribers and outputHistory when it is called; host is what
\* the collaborator does ("ok", "error", "wait").  The result says how the
\* call ends (return, throw, suspend), with what value, the new subscribers
\* and the lines it logged.
ExecuteCommand(req, subs, h, host) ==
  LET method == IF Has(req, "method") THEN req.method ELSE "undefined"
      hasParams == Has(req, "params")
      cmdParams == IF hasParams THEN req.params ELSE <<>>
      Return(v) == [kind |-> "return", value |-> v, subs |-> subs, lines |-> <<>>]
      Throw(msg) == [kind |-> "throw", value |-> msg, subs |-> subs, lines |-> <<>>]
      Suspend == [kind |-> "suspend", value |-> Undef, subs |-> subs, lines |-> <<>>]
      Error(text) == Return(Obj([error |-> ErrorMsg(text)]))
      Truthy(f) == Has(cmdParams, f) /\ cmdParams[f] # ""
      TruthyNumber(f) == Has(cmdParams, f) /\ cmdParams[f] # 0
  IN  CASE method = "restartExtension" ->
             Return(Obj([success |-> TRUE, message |-> <<"Extension host will restart">>]))
        [] method = "eval" ->
             IF ~hasParams \/ ~Has(cmdParams, "code") THEN Throw(TypeErrorMsg)
             ELSE LET r == RunBody(EvalBody(cmdParams.code))
                  IN  [kind |-> r.kind, value |-> r.value, subs |-> subs, lines |-> <<>>]
        [] method = "webview" ->
             IF ~hasParams THEN Throw(TypeErrorMsg)
             ELSE IF ~Has(cmdParams, "viewName") \/ cmdParams.viewName = <<>>
                  THEN Error("viewName parameter required")
             ELSE Return(Obj([success |-> TRUE, webview |-> cmdParams.viewName]))
        [] method = "registerConfig" ->
             IF ~hasParams THEN Throw(TypeErrorMsg)
             ELSE IF ~Truthy("name") \/ ~Truthy("filePath")
                  THEN Error("name and filePath required")
             ELSE IF host = "error" THEN Throw(ErrorMsg("Error: EACCES"))
             ELSE Return(Obj([success |-> TRUE, message |-> <<"Config registered", cmdParams.name>>]))
        [] method = "unregisterConfig" ->
             IF ~hasParams THEN Throw(TypeErrorMsg)
             ELSE IF ~Truthy("name") THEN Error("name required")
             ELSE IF ~RegistryHas(registry, cmdParams.name)
                  THEN Return(Obj([error |-> <<"Config not found", cmdParams.name>>]))
             ELSE IF host = "error" THEN Throw(ErrorMsg("Error: EACCES"))
             ELSE Return(Obj([success |-> TRUE, message |-> <<"Config unregistered", cmdParams.name>>]))
        [] method = "listConfigs" ->
             Return(Obj([configs |-> ListConfigs(registry, activeConfigs)]))
        [] method = "subscribe" ->
             IF ~hasParams THEN Throw(TypeErrorMsg)
             ELSE IF ~Truthy("url") THEN Error("url parameter required")
             ELSE [kind |-> "return",
                   value |-> Obj([success |-> TRUE,
                                  message |-> <<"Subscribed to", cmdParams.url>>,
                                  subscribers |-> SetAdd(subs, cmdParams.url)]),
                   subs |-> SetAdd(subs, cmdParams.url),
                   lines |-> <<Line("Subscribed", cmdParams.url)>>]
        [] method = "unsubscribe" ->
             IF ~hasParams THEN Throw(TypeErrorMsg)
             ELSE IF ~Truthy("url") THEN Error("url parameter required")
             ELSE [kind |-> "return",
                   value |-> Obj([success |-> TRUE,
                                  message |-> <<"Unsubscribed from", cmdParams.url>>]),
                   subs |-> SetDelete(subs, cmdParams.url),
                   lines |-> <<Line("Unsubscribed", cmdParams.url)>>]
        [] method = "listSubscribers" ->
             Return(Obj([success |-> TRUE, message |-> <<"subscriber(s)", ToString(Len(subs))>>,
                         subscribers |-> subs]))
        [] method = "getOutput" ->
             IF ~hasParams THEN Throw(TypeErrorMsg)
             ELSE LET lines == IF TruthyNumber("lines") THEN cmdParams.lines ELSE DefaultLines
                  IN  Return(Obj([output |-> Slice(h, 0 - lines), total |-> Len(h)]))
        [] method = "status" ->
             IF host = "wait" THEN Suspend
             ELSE Return(Obj([extension |-> [name |-> "ClarityOS", port |-> 9485]]))
        [] OTHER ->
             Return(Obj([error |-> <<"Unknown method:", method>>,
                         available |-> Available,
                         hint |-> "Run \"vscode --help\" for examples"]))

\* The calls that executeCommand(request) makes on the webview manager and
\* on the config handlers, as changes of the managers' state st.
ManagerCalls(req, st, host) ==
  LET method == IF Has(req, "method") THEN req.method ELSE "undefined"
      hasParams == Has(req, "params")
      cmdParams == IF hasParams THEN req.params ELSE <<>>
      Truthy(f) == Has(cmdParams, f) /\ cmdParams[f] # ""
  IN  IF ~hasParams THEN st
      ELSE IF method = "webview" /\ Has(cmdParams, "viewName") /\ cmdParams.viewName # <<>>
           THEN OpenView(st, cmdParams.viewName, host # "error")
      ELSE IF method = "registerConfig" /\ Truthy("name") /\ Truthy("filePath")
              /\ host # "error"
           THEN Register(st, cmdParams.name, cmdParams.filePath)
      ELSE IF method = "unregisterConfig" /\ Truthy("name")
           THEN Unregister(st, cmdParams.name, host # "error")
      ELSE st

\* What a suspended call yields when the awaited host call settles.
Settled(req, host) ==
  IF host = "error"
  THEN [kind |-> "throw", value |-> ErrorMsg("Error: host call failed")]
  ELSE IF req.method = "eval"
       THEN [kind |-> "return", value |-> Num(42)]
       ELSE [kind |-> "return",
             value |-> Obj([extension |-> [name |-> "ClarityOS", port |-> 9485]])]

\* ------------------------------------------------------------- responses
IsErrorResult(v) == v.type = "object" /\ Has(v.fields, "error")

\* handleConnection's choice of response for what executeCommand gave.
ToResponseOk(outcome) == [ok |-> TRUE, result |-> Undef]
ToResponse(outcome) ==
  IF outcome.kind = "throw" THEN [ok |-> FALSE, error |-> outcome.value]
  ELSE IF IsErrorResult(outcome.value)
       THEN [ok |-> FALSE, error |-> outcome.value.fields.error]
       ELSE [ok |-> TRUE, result |-> outcome.value]

\* JSON.stringify of a response: a key whose value is undefined is left out.
Stringify(resp) ==
  IF resp.ok /\ resp.result.type = "undefined" THEN [ok |-> TRUE] ELSE resp

\* socket.write(text) followed by socket.end().  A write on a socket that
\* the peer has ended, or whose writable side the handler has ended, raises
\* the socket's 'error' event and destroys the socket; a write on a
\* destroyed socket goes nowhere.
SocketWrite(cn, text) ==
  IF cn.open /\ cn.peerEnded
  THEN [conn |-> [cn EXCEPT !.writes = Append(@, text), !.open = FALSE,
                           !.errors = @ + 1],
        error |-> TRUE, text |-> "transport"]
  ELSE IF cn.open /\ ~cn.ended
  THEN [conn |-> [cn EXCEPT !.writes = Append(@, text), !.delivered = @ + 1,
                           !.ended = TRUE],
        error |-> FALSE, text |-> ""]
  ELSE IF cn.open
       THEN [conn |-> [cn EXCEPT !.writes = Append(@, text), !.open = FALSE,
                                !.errors = @ + 1],
             error |-> TRUE, text |-> "write after end"]
       ELSE [conn |-> [cn EXCEPT !.writes = Append(@, text)],
             error |-> FALSE, text |-> ""]

\* The end of the 'data' handler for connection c (record cn): log the
\* response, write it, end the socket; then whatever the write set off.
RespondInTurn(c, cn, hist, outcome) ==
  /\ \A d \in 1 .. Len(conns) : d # c => conns[d].pending = <<>>
  /\ LET wr == SocketWrite(cn, Stringify(ToResponse(outcome)))
     IN  /\ conns' = [conns EXCEPT ![c] = wr.conn]
         /\ outputHistory' = AppendLine(hist, nInst, Line("OUTPUT", "ok"))
         /\ UNCHANGED <<closeWaiters, disposeResolved>>
Respond(c, cn, hist, outcome) ==
  LET resp == ToResponse(outcome)
      h1 == AppendLine(hist, nInst,
                       Line(IF outcome.kind = "throw" THEN "ERROR" ELSE "OUTPUT",
                            IF resp.ok THEN "ok" ELSE "error"))
      wr == SocketWrite(cn, Stringify(resp))
      h2 == IF wr.error
            THEN AppendLine(h1, nInst, Line("SOCKET ERROR", wr.text))
            ELSE h1
      cs == [conns EXCEPT ![c] = wr.conn]
      d == Drain(cn.inst, listening, closeWaiters, h2, disposeResolved, cs, nInst)
  IN  /\ conns' = cs
      /\ outputHistory' = d.hist
      /\ closeWaiters' = d.waiters
      /\ disposeResolved' = d.resolved

\* ------------------------------------------------------------ connections
NewConn(i) ==
  [inst |-> i, open |-> TRUE, ended |-> FALSE, peerEnded |-> FALSE, received |-> <<>>,
   pending |-> <<>>, writes |-> <<>>, delivered |-> 0,
   dispatched |-> 0, rejected |-> 0, errors |-> 0]

\* A client connects to the port while an instance is listening on it.
Connect(maxConns) ==
  /\ Len(conns) < maxConns
  /\ \E i \in Inst :
       /\ listening[i]
       /\ conns' = Append(conns, NewConn(i))
  /\ UNCHANGED <<bridgeInstance, nInst, listening, subscribers, outputHistory,
                 closeWaiters, disposeCalls, disposeResolved, portOther,
                 subscriptions, lastMessage, phase, logSeq, hookVars, hostVars, progress, managerVars>>

\* socket.on('data'): one chunk arrives on connection c.
Data(c, chunk, host) ==
  /\ c \in ConnIds
  /\ conns[c].open
  /\ ~conns[c].peerEnded
  /\ Len(conns[c].received) < MaxChunks
  /\ LET i == conns[c].inst
         cn == [conns[c] EXCEPT !.received = Append(@, chunk)]
     IN  IF chunk.kind = "bad"
         THEN /\ Respond(c, cn, outputHistory,
                         [kind |-> "throw", value |-> ErrorMsg("SyntaxError: Unexpected token")])
              /\ UNCHANGED <<subscribers, hostVars, progress, managerVars>>
         ELSE LET h1 == AppendLine(outputHistory, nInst,
                                   Line("INPUT", IF chunk.kind = "null" THEN "null"
                                                 ELSE IF Has(chunk.value, "method")
                                                      THEN chunk.value.method ELSE ""))
                  r == IF chunk.kind = "null"
                       THEN [kind |-> "throw", value |-> TypeErrorMsg,
                             subs |-> subscribers[i], lines |-> <<>>]
                       ELSE ExecuteCommand(chunk.value, subscribers[i], h1[i], host)
                  h2 == AppendLines(h1, nInst, r.lines)
                  cd == [cn EXCEPT !.dispatched = @ + 1,
                                   !.rejected = IF r.kind = "throw" THEN @ + 1 ELSE @]
                  si == IF chunk.kind = "json" /\ Has(chunk.value, "method")
                           /\ chunk.value.method = "restartExtension"
                        THEN SetImmediate(restartQueue, restarts, c)
                        ELSE [queue |-> restartQueue, done |-> restarts]
              IN  /\ subscribers' = [subscribers EXCEPT ![i] = r.subs]
                  /\ progress' = IF chunk.kind = "json"
                                 THEN OnProgress(onProgress, progress, Executing(i, chunk.value))
                                 ELSE progress
                  /\ SetManagers(IF chunk.kind = "json"
                                 THEN ManagerCalls(chunk.value, Managers, host)
                                 ELSE Managers)
                  /\ restartQueue' = si.queue
                  /\ restarts' = si.done
                  /\ IF r.kind = "suspend"
                     THEN /\ conns' = [conns EXCEPT
                                         ![c] = [cd EXCEPT !.pending = Append(@, chunk.value)]]
                          /\ outputHistory' = h2
                          /\ UNCHANGED <<closeWaiters, disposeResolved>>
                     ELSE Respond(c, cd, h2, r)
  /\ UNCHANGED <<bridgeInstance, nInst, listening, disposeCalls, portOther,
                 subscriptions, lastMessage, phase, logSeq, hookVars>>

\* The host call awaited by the k-th suspended request of connection c
\* settles, and the 'data' handler runs to its end.
Resume(c, k, host) ==
  /\ c \in ConnIds
  /\ k \in 1 .. Len(conns[c].pending)
  /\ LET req == conns[c].pending[k]
         cn == [conns[c] EXCEPT
                  !.pending = SubSeq(@, 1, k - 1) \o SubSeq(@, k + 1, Len(@)),
                  !.rejected = IF host = "error" THEN @ + 1 ELSE @]
     IN  Respond(c, cn, outputHistory, Settled(req, host))
  /\ UNCHANGED <<bridgeInstance, nInst, listening, subscribers, disposeCalls,
                 portOther, subscriptions, lastMessage, phase, logSeq, hookVars, hostVars, progress, managerVars>>

\* The socket's 'end' event: the peer has sent FIN.  flushed says whether
\* the writable side has finished by then, which for a written response
\* depends on the client having read it.  A socket that the handler has
\* ended and whose response is flushed is destroyed in the same turn, and a
\* stopped server that was waiting for it closes.  Any other socket stays:
\* socket.write is replaced, and the 'close' comes in a later callback (for
\* an unflushed response, once the client has read it).
PeerEnd(c, flushed) ==
  /\ c \in ConnIds
  /\ conns[c].open
  /\ ~conns[c].peerEnded
  /\ IF conns[c].ended /\ flushed
     THEN LET cs == [conns EXCEPT ![c].peerEnded = TRUE, ![c].open = FALSE]
              d == Drain(conns[c].inst, listening, closeWaiters, outputHistory,
                         disposeResolved, cs, nInst)
          IN  /\ conns' = cs
              /\ outputHistory' = d.hist
              /\ closeWaiters' = d.waiters
              /\ disposeResolved' = d.resolved
     ELSE /\ conns' = [conns EXCEPT ![c].peerEnded = TRUE]
          /\ UNCHANGED <<outputHistory, closeWaiters, disposeResolved>>
  /\ UNCHANGED <<bridgeInstance, nInst, listening, subscribers, disposeCalls,
                 portOther, subscriptions, lastMessage, phase, logSeq, hookVars,
                 hostVars, progress, managerVars>>

\* The socket's 'close' event of a socket that stayed after the peer's end:
\* the socket is destroyed.
Close(c) ==
  /\ c \in ConnIds
  /\ conns[c].open
  /\ conns[c].peerEnded
  /\ LET cs == [conns EXCEPT ![c].open = FALSE]
         d == Drain(conns[c].inst, listening, closeWaiters, outputHistory,
                    disposeResolved, cs, nInst)
     IN  /\ conns' = cs
         /\ outputHistory' = d.hist
         /\ closeWaiters' = d.waiters
         /\ disposeResolved' = d.resolved
  /\ UNCHANGED <<bridgeInstance, nInst, listening, subscribers, disposeCalls,
                 portOther, subscriptions, lastMessage, phase, logSeq, hookVars, hostVars, progress, managerVars>>

\* socket.on('error'): a transport error is logged; the socket is destroyed.
SocketErrorFatal(c) ==
  /\ c \in 1 .. Len(conns)
  /\ conns[c].open
  /\ conns' = [conns EXCEPT ![c].open = FALSE, ![c].errors = @ + 1]
  /\ outputHistory' = AppendLine(outputHistory, nInst, Line("SOCKET ERROR", "transport"))
  /\ listening' = [i \in Inst |-> FALSE]
  /\ UNCHANGED <<bridgeInstance, nInst, subscribers, closeWaiters, disposeCalls,
                 disposeResolved, portOther, subscriptions, lastMessage, phase,
                 logSeq, hookVars, hostVars, progress, managerVars>>
SocketError(c) ==
  /\ c \in ConnIds
  /\ conns[c].open
  /\ LET cs == [conns EXCEPT ![c].open = FALSE, ![c].errors = @ + 1]
         h1 == AppendLine(outputHistory, nInst, Line("SOCKET ERROR", "transport"))
         d == Drain(conns[c].inst, listening, closeWaiters, h1, disposeResolved,
                    cs, nInst)
     IN  /\ conns' = cs
         /\ outputHistory' = d.hist
         /\ closeWaiters' = d.waiters
         /\ disposeResolved' = d.resolved
  /\ UNCHANGED <<bridgeInstance, nInst, listening, subscribers, disposeCalls,
                 portOther, subscriptions, lastMessage, phase, logSeq, hookVars, hostVars, progress, managerVars>>

\* The script reaches a call of the host, which gets the console, whether or
\* not the script returns the promise of the call.
RECURSIVE CallsHost(_)
CallsHost(stmts) ==
  IF stmts = <<>> THEN FALSE
  ELSE LET st == Classify(Head(stmts))
       IN  IF st.form = "empty" THEN CallsHost(Tail(stmts))
           ELSE IF st.form = "expression"
                THEN IF st.operand = "fail()" THEN FALSE
                     ELSE st.operand = "wait()" \/ CallsHost(Tail(stmts))
           ELSE Has(st, "operand") /\ st.operand = "wait()"

HandsConsole(body) ==
  LET stmts == Statements(body, <<>>)
  IN  /\ \A k \in 1 .. Len(stmts) : Classify(stmts[k]).form # "invalid"
      /\ CallsHost(stmts)

\* An eval request of connection c ran a script that called the host: what
\* it called holds the evalConsole object, while the eval is pending and
\* after it has settled.
HoldsConsole(c) ==
  \E k \in 1 .. Len(conns[c].received) :
    LET chunk == conns[c].received[k]
    IN  /\ chunk.kind = "json"
        /\ Has(chunk.value, "method") /\ chunk.value.method = "eval"
        /\ Has(chunk.value, "params") /\ Has(chunk.value.params, "code")
        /\ HandsConsole(EvalBody(chunk.value.params.code))

\* evalConsole.log, evalConsole.error, evalConsole.warn
EvalTag(level) ==
  IF level = "log" THEN "[eval]"
  ELSE IF level = "error" THEN "[eval:error]" ELSE "[eval:warn]"

EvalConsole(c, level, bound) ==
  /\ c \in ConnIds
  /\ HoldsConsole(c)
  /\ logSeq < bound
  /\ logSeq' = logSeq + 1
  /\ outputHistory' = AppendLine(outputHistory, nInst,
                                 Line(EvalTag(level), ToString(logSeq + 1)))
  /\ UNCHANGED <<bridgeInstance, nInst, listening, subscribers, closeWaiters,
                 disposeCalls, disposeResolved, portOther, conns, subscriptions,
                 lastMessage, phase, hookVars, hostVars, progress, managerVars>>

ConsoleLog(c, bound) == EvalConsole(c, "log", bound)
ConsoleError(c, bound) == EvalConsole(c, "error", bound)
ConsoleWarn(c, bound) == EvalConsole(c, "warn", bound)

\* -------------------------------------------------------------- broadcast
\* broadcast(event): subscribers.forEach(url => fetch(url, ...)), one fetch
\* per URL of the set in its insertion order, none of them awaited.
FanoutFirst(i, subs, e) ==
  IF subs = <<>> THEN <<>>
  ELSE <<[inst |-> i, event |-> e, url |-> subs[1], state |-> "sent"]>>
Fanout(i, subs, e) ==
  [k \in 1 .. Len(subs) |-> [inst |-> i, event |-> e, url |-> subs[k], state |-> "sent"]]

\* The .catch of a fetch: the failure goes to the output channel.
PostFailedSilently(hist, n, url) == hist
PostFailed(hist, n, url) == AppendLine(hist, n, Line("Broadcast failed to", url))

\* The onDidChangeActiveTerminal listener of activate(), up to its await.
TerminalChanged(maxEvents) ==
  /\ bridgeInstance # 0
  /\ nEvents + awaiting < maxEvents
  /\ awaiting' = awaiting + 1
  /\ UNCHANGED <<bridgeInstance, nInst, listening, subscribers, outputHistory,
                 closeWaiters, disposeCalls, disposeResolved, portOther, conns,
                 subscriptions, lastMessage, phase, logSeq, nEvents, posts, unhandled,
                 onProgress, hostVars, progress, managerVars>>

\* terminal.processId resolved: the listener calls broadcast on the instance
\* recorded now; with none recorded the call throws inside the listener.
TerminalResolved ==
  /\ awaiting > 0
  /\ awaiting' = awaiting - 1
  /\ IF bridgeInstance = 0
     THEN /\ unhandled' = unhandled + 1
          /\ UNCHANGED <<nEvents, posts>>
     ELSE /\ nEvents' = nEvents + 1
          /\ posts' = posts \o Fanout(bridgeInstance, subscribers[bridgeInstance], nEvents + 1)
          /\ UNCHANGED unhandled
  /\ UNCHANGED <<bridgeInstance, nInst, listening, subscribers, outputHistory,
                 closeWaiters, disposeCalls, disposeResolved, portOther, conns,
                 subscriptions, lastMessage, phase, logSeq, onProgress, hostVars,
                 progress, managerVars>>

\* The promise of the p-th fetch settles: fulfilled with the subscriber's
\* HTTP response, or rejected because the request could not be made.
PostSettle(p, outcome) ==
  /\ p \in 1 .. Len(posts)
  /\ posts[p].state = "sent"
  /\ posts' = [posts EXCEPT ![p].state = outcome]
  /\ outputHistory' = IF outcome = "failed"
                      THEN PostFailed(outputHistory, nInst, posts[p].url)
                      ELSE outputHistory
  /\ UNCHANGED <<bridgeInstance, nInst, listening, subscribers, closeWaiters,
                 disposeCalls, disposeResolved, portOther, conns, subscriptions,
                 lastMessage, phase, logSeq, awaiting, nEvents, unhandled, onProgress,
                 hostVars, progress, managerVars>>

\* ---------------------------------------------------------------- restart
\* The setImmediate callback of a restartExtension request runs: the
\* restartExtensionHost command is executed.
RestartHost ==
  /\ restartQueue # <<>>
  /\ restartQueue' = Tail(restartQueue)
  /\ restarts' = restarts + 1
  /\ UNCHANGED <<bridgeInstance, nInst, listening, subscribers, outputHistory,
                 closeWaiters, disposeCalls, disposeResolved, portOther, conns,
                 subscriptions, lastMessage, phase, logSeq, hookVars, progress,
                 managerVars>>

\* --------------------------------------------------------------- managers
\* The user closes the panel of viewName: its onDidDispose callback runs.
PanelDisposed(viewName) ==
  /\ viewName \in panels
  /\ SetManagers(OnDidDispose(Managers, viewName))
  /\ UNCHANGED <<bridgeInstance, nInst, listening, subscribers, outputHistory,
                 closeWaiters, disposeCalls, disposeResolved, portOther, conns,
                 subscriptions, lastMessage, phase, logSeq, hookVars, hostVars,
                 progress>>

\* After deactivate() the host disposes context.subscriptions in one loop:
\* each disposable of a start command calls dispose() on the instance that
\* is recorded now, and the panels and watchers of the open views are
\* disposed.
DisposeSubscriptions ==
  /\ phase = "deactivated"
  /\ phase' = "disposed"
  /\ SetManagers(DisposePanels(Managers))
  /\ IF bridgeInstance = 0 \/ subscriptions = 0
     THEN UNCHANGED <<listening, outputHistory, closeWaiters, disposeCalls,
                      disposeResolved>>
     ELSE LET d == DisposeN(bridgeInstance, subscriptions, listening, closeWaiters,
                            outputHistory, disposeResolved, conns, nInst)
          IN  /\ listening' = d.listening
              /\ closeWaiters' = d.waiters
              /\ outputHistory' = d.hist
              /\ disposeResolved' = d.resolved
              /\ disposeCalls' = [disposeCalls EXCEPT ![bridgeInstance] = @ + subscriptions]
  /\ UNCHANGED <<bridgeInstance, nInst, subscribers, portOther, conns,
                 subscriptions, lastMessage, logSeq, hookVars, hostVars, progress>>

\* The file of the active config of name is written, with text that loads or
\* does not, and the fs.watch listener of the config runs: it is loaded again.
FileChanged(name, loadable) ==
  /\ activeConfigs[name].id # 0
  /\ loads[name] < MaxLoads
  /\ SetManagers(LoadConfig([Managers EXCEPT !.fileOk = loadable], name,
                            activeConfigs[name].filePath))
  /\ UNCHANGED <<bridgeInstance, nInst, listening, subscribers, outputHistory,
                 closeWaiters, disposeCalls, disposeResolved, portOther, conns,
                 subscriptions, lastMessage, phase, logSeq, hookVars, hostVars,
                 progress>>

\* ------------------------------------------------------- the whole bridge
CoreChunks ==
  {BadChunk,
   NullChunk,
   Request([method |-> "bogus"]),
   Request([method |-> "eval", params |-> [code |-> <<"wait()">>]]),
   Request([method |-> "listSubscribers"])}

SubChunks ==
  {Request([method |-> m, params |-> [url |-> u]]) :
     m \in {"subscribe", "unsubscribe"}, u \in Urls}

EvalAwaits == Request([method |-> "eval", params |-> [code |-> <<"wait()">>]])

\* lines values a client sends with getOutput.
GetLines == {0, 1, 2, 999, 1000, 1001}
GetChunks ==
  {Request([method |-> "getOutput", params |-> [lines |-> n]]) : n \in GetLines}

LifeChunks ==
  {Request([method |-> "eval", params |-> [code |-> <<"wait()">>]]),
   Request([method |-> "listSubscribers"])}

\* Lifecycle commands, the port, and connections that each carry one request
\* which waits for the host; the extension as wired, in a fresh workspace.
Next ==
  \/ StartCommand
  \/ StopCommand
  \/ Deactivate
  \/ DisposeSubscriptions
  \/ OtherBind
  \/ OtherRelease
  \/ Connect(MaxConns)
  \/ \E c \in ConnIds, chunk \in LifeChunks : conns[c].received = <<>> /\ Data(c, chunk, "ok")
  \/ \E c \in ConnIds, host \in {"ok", "error"} : Resume(c, 1, host)
  \/ \E c \in ConnIds, flushed \in BOOLEAN : PeerEnd(c, flushed)
  \/ \E c \in ConnIds : Close(c)

Spec == InitWired /\ [][Next]_vars

\* One running instance and its connections: any chunks, transport errors.
NextConn ==
  \/ nInst = 0 /\ StartCommand
  \/ Connect(MaxConns)
  \/ \E c \in ConnIds, chunk \in CoreChunks : Data(c, chunk, "ok")
  \/ \E c \in ConnIds, k \in 1 .. MaxChunks, host \in {"ok", "error"} : Resume(c, k, host)
  \/ \E c \in ConnIds, flushed \in BOOLEAN : PeerEnd(c, flushed)
  \/ \E c \in ConnIds : Close(c)
  \/ \E c \in ConnIds : SocketError(c)

SpecConn == InitWired /\ [][NextConn]_vars

\* One running instance; each connection carries one subscribe or
\* unsubscribe request, one client after the other; a client that has its
\* response may end.
NextSubs ==
  \/ nInst = 0 /\ StartCommand
  \/ (\A c \in ConnIds : conns[c].ended) /\ Connect(MaxSubReqs)
  \/ \E c \in ConnIds, chunk \in SubChunks :
       conns[c].received = <<>> /\ Data(c, chunk, "ok")
  \/ \E c \in ConnIds, flushed \in BOOLEAN : conns[c].ended /\ PeerEnd(c, flushed)
  \/ \E c \in ConnIds : Close(c)

SpecSubs == InitWired /\ [][NextSubs]_vars

\* One running instance; the first connection runs a script that keeps
\* logging, then further connections ask for the output.
NextBuffer ==
  \/ nInst = 0 /\ StartCommand
  \/ (IF conns = <<>> THEN TRUE ELSE conns[1].pending # <<>>) /\ Connect(MaxGets + 1)
  \/ conns # <<>> /\ conns[1].received = <<>> /\ Data(1, EvalAwaits, "ok")
  \/ (\A c \in ConnIds : conns[c].writes = <<>>) /\ ConsoleLog(1, MaxAppends)
  \/ \E c \in ConnIds, chunk \in GetChunks :
       c > 1 /\ conns[c].received = <<>> /\ Data(c, chunk, "ok")

SpecBuffer == InitWired /\ [][NextBuffer]_vars

\* One running instance; requests that subscribe and unsubscribe webhooks,
\* one after the other, while terminal changes are broadcast and the POSTs
\* settle.
Hooks == Urls
HookChunks ==
  {Request([method |-> m, params |-> [url |-> u]]) :
     m \in {"subscribe", "unsubscribe"}, u \in Hooks}

NextBroadcast ==
  \/ nInst = 0 /\ StartCommand
  \/ (\A c \in ConnIds : conns[c].ended) /\ Connect(MaxHookReqs)
  \/ \E c \in ConnIds, chunk \in HookChunks : conns[c].received = <<>> /\ Data(c, chunk, "ok")
  \/ TerminalChanged(MaxEvents)
  \/ TerminalResolved
  \/ \E p \in 1 .. Len(posts), outcome \in {"delivered", "failed"} : PostSettle(p, outcome)

SpecBroadcast == InitWired /\ [][NextBroadcast]_vars

\* One running instance; each connection carries one request, of any method,
\* without params, with empty params or with the params the method reads.
NoParams == {Request([method |-> m]) : m \in KnownMethods \cup {"bogus"}}
ReadsParams ==
  {"eval", "webview", "registerConfig", "unregisterConfig", "subscribe",
   "unsubscribe", "getOutput"}
EmptyParams == {Request([method |-> m, params |-> <<>>]) : m \in ReadsParams}
WithParams ==
  {Request([method |-> m, params |-> [url |-> "u1"]]) : m \in {"subscribe", "unsubscribe"}}
  \cup {Request([method |-> "eval", params |-> [code |-> <<e>>]]) : e \in Operand}
  \cup {Request([method |-> "webview", params |-> [viewName |-> <<"a">>]]),
        Request([method |-> "registerConfig", params |-> [name |-> "cfg", filePath |-> "/cfg.js"]]),
        Request([method |-> "unregisterConfig", params |-> [name |-> "cfg"]]),
        Request([method |-> "getOutput", params |-> [lines |-> 1]])}
DispatchChunks == NoParams \cup EmptyParams \cup WithParams

NextDispatch ==
  \/ nInst = 0 /\ StartCommand
  \/ Connect(MaxConns)
  \/ \E c \in ConnIds, chunk \in DispatchChunks, host \in {"ok", "error", "wait"} :
       conns[c].received = <<>> /\ Data(c, chunk, host)
  \/ \E c \in ConnIds, host \in {"ok", "error"} : Resume(c, 1, host)
  \/ RestartHost

SpecDispatch == InitWired /\ [][NextDispatch]_vars

\* One running instance; each connection carries one chunk, malformed or
\* not, and may fail with a transport error at any time.
SocketChunks ==
  {BadChunk, NullChunk, Request([method |-> "listSubscribers"]), EvalAwaits}

NextSocket ==
  \/ nInst = 0 /\ StartCommand
  \/ Connect(MaxConns)
  \/ \E c \in ConnIds, chunk \in SocketChunks :
       conns[c].received = <<>> /\ Data(c, chunk, "ok")
  \/ \E c \in ConnIds, host \in {"ok", "error"} : Resume(c, 1, host)
  \/ \E c \in ConnIds, flushed \in BOOLEAN : PeerEnd(c, flushed)
  \/ \E c \in ConnIds : Close(c)
  \/ \E c \in ConnIds : SocketError(c)

SpecSocket == InitHook /\ [][NextSocket]_vars

\* One running instance; a connection carries one eval request whose code is
\* any text of up to MaxCodeLen pieces in which no two pieces run together
\* into one word; a script that awaits the host writes to its console, while
\* it waits and afterwards.
Pieces == Operand \cup {"return", "sp", "nl", "semi"}
EvalCodes ==
  {code \in UNION {[1 .. n -> Pieces] : n \in 0 .. MaxCodeLen} : ~Glued(code)}
EvalRequest(code) == Request([method |-> "eval", params |-> [code |-> code]])

NextEval ==
  \/ nInst = 0 /\ StartCommand
  \/ Connect(MaxEvalConns)
  \/ \E c \in ConnIds, code \in EvalCodes :
       conns[c].received = <<>> /\ Data(c, EvalRequest(code), "ok")
  \/ \E c \in ConnIds, host \in {"ok", "error"} : Resume(c, 1, host)
  \/ \E c \in ConnIds, flushed \in BOOLEAN : conns[c].ended /\ PeerEnd(c, flushed)
  \/ \E c \in ConnIds : Close(c)
  \/ \E c \in ConnIds : ConsoleLog(c, MaxLogs)
  \/ \E c \in ConnIds : ConsoleError(c, MaxLogs)
  \/ \E c \in ConnIds : ConsoleWarn(c, MaxLogs)

SpecEval == InitWired /\ [][NextEval]_vars

\* One running instance; the first connection runs a script that keeps
\* logging, then further connections subscribe or ask for the output, in any
\* order, each appending its own lines to the full history.
SharedChunks ==
  {Request([method |-> "subscribe", params |-> [url |-> u]]) : u \in Urls}
  \cup {Request([method |-> "getOutput", params |-> [lines |-> Capacity + 1]])}

NextShared ==
  \/ nInst = 0 /\ StartCommand
  \/ Connect(MaxSharers + 1)
  \/ conns # <<>> /\ conns[1].received = <<>> /\ Data(1, EvalAwaits, "ok")
  \/ (\A c \in ConnIds : conns[c].writes = <<>>) /\ ConsoleLog(1, MaxAppends)
  \/ \E c \in ConnIds, chunk \in SharedChunks :
       c > 1 /\ conns[c].received = <<>> /\ Data(c, chunk, "ok")

SpecShared == InitWired /\ [][NextShared]_vars

\* Starts and stops, while connections subscribe webhooks and terminal
\* changes are broadcast.
RestartChunks ==
  {Request([method |-> "subscribe", params |-> [url |-> u]]) : u \in Urls}

NextRestart ==
  \/ bridgeInstance = 0 /\ StartCommand
  \/ bridgeInstance # 0 /\ StopCommand
  \/ (\A c \in ConnIds : conns[c].ended) /\ Connect(MaxConns)
  \/ \E c \in ConnIds, chunk \in RestartChunks :
       conns[c].received = <<>> /\ Data(c, chunk, "ok")
  \/ TerminalChanged(MaxEvents)
  \/ TerminalResolved

SpecRestart == InitWired /\ [][NextRestart]_vars

\* One running instance; requests open views, found on disk or not, one
\* after the other, and the user closes panels; the extension is deactivated
\* and the host disposes what is left.
ViewChunks ==
  {Request([method |-> "webview", params |-> [viewName |-> v]]) : v \in ViewNames}

NextWebview ==
  \/ nInst = 0 /\ StartCommand
  \/ (\A c \in ConnIds : conns[c].ended) /\ Connect(MaxViewReqs)
  \/ \E c \in ConnIds, chunk \in ViewChunks, host \in {"ok", "error"} :
       conns[c].received = <<>> /\ Data(c, chunk, host)
  \/ \E v \in ViewNames : PanelDisposed(v)
  \/ Deactivate
  \/ DisposeSubscriptions

SpecWebview == InitWired /\ [][NextWebview]_vars

\* One running instance; requests register and unregister configs, one
\* after the other, and the files of active configs change.
ConfigChunks ==
  {Request([method |-> "registerConfig", params |-> [name |-> n, filePath |-> ConfigPath]]) :
     n \in ConfigNames}
  \cup {Request([method |-> "unregisterConfig", params |-> [name |-> n]]) : n \in ConfigNames}
  \cup {Request([method |-> "listConfigs"])}

NextConfig ==
  \/ nInst = 0 /\ StartCommand
  \/ (\A c \in ConnIds : conns[c].ended) /\ Connect(MaxConfigReqs)
  \/ \E c \in ConnIds, chunk \in ConfigChunks, host \in {"ok", "error"} :
       /\ conns[c].received = <<>>
       /\ \A n \in ConfigNames : loads[n] < MaxLoads
       /\ Data(c, chunk, host)
  \/ \E n \in ConfigNames, loadable \in BOOLEAN : FileChanged(n, loadable)

SpecConfig == InitWorkspace /\ [][NextConfig]_vars

\* Starts and stops while another process may hold the port; each
\* connection carries one chunk: malformed, null, a request that throws, one
\* that changes the subscribers, one that waits for the host.
PortChunks ==
  {BadChunk, NullChunk, Request([method |-> "subscribe"]),
   Request([method |-> "subscribe", params |-> [url |-> "u1"]]), EvalAwaits}

NextPort ==
  \/ bridgeInstance = 0 /\ StartCommand
  \/ bridgeInstance # 0 /\ StopCommand
  \/ OtherBind
  \/ OtherRelease
  \/ (\A c \in ConnIds : conns[c].received # <<>>) /\ Connect(MaxConns)
  \/ \E c \in ConnIds, chunk \in PortChunks :
       conns[c].received = <<>> /\ Data(c, chunk, "ok")
  \/ \E c \in ConnIds, host \in {"ok", "error"} : Resume(c, 1, host)

SpecPort == InitHook /\ [][NextPort]_vars

\* One instance: its start, stops, deactivation and disposal, with
\* connections that carry one request each; every peer ends its connection
\* at some time, and a socket that stays after its peer's end gets its
\* 'close'.
NextDispose ==
  \/ nInst = 0 /\ StartCommand
  \/ bridgeInstance # 0 /\ StopCommand
  \/ Deactivate
  \/ DisposeSubscriptions
  \/ Connect(MaxConns)
  \/ \E c \in ConnIds, chunk \in LifeChunks : conns[c].received = <<>> /\ Data(c, chunk, "ok")
  \/ \E c \in ConnIds, host \in {"ok", "error"} : Resume(c, 1, host)
  \/ \E c \in ConnIds, flushed \in BOOLEAN : PeerEnd(c, flushed)
  \/ \E c \in ConnIds : Close(c)

\* Some connection's peer ends it, or a socket that stayed gets its 'close'.
ConnectionEnds ==
  \E c \in ConnIds : (\E flushed \in BOOLEAN : PeerEnd(c, flushed)) \/ Close(c)

SpecDispose ==
  /\ InitWired
  /\ [][NextDispose]_vars
  /\ WF_vars(ConnectionEnds)

\* One running instance.  The first connection sends an eval that waits for
\* a host call which may never settle; every other client sends a request
\* that needs no host call, gets its response, reads it and ends.  The event
\* loop runs every callback that is ready.
QuickChunks == {BadChunk, Request([method |-> "listSubscribers"])}

SendsEval == conns # <<>> /\ conns[1].received = <<>> /\ Data(1, EvalAwaits, "ok")
SendsQuick(c) ==
  \E chunk \in QuickChunks :
    c \in ConnIds \ {1} /\ conns[c].received = <<>> /\ Data(c, chunk, "ok")
EndsAnswered(c) ==
  \E flushed \in BOOLEAN : c \in ConnIds /\ conns[c].ended /\ PeerEnd(c, flushed)

\* The callbacks that are ready to run without the host: the start, an
\* incoming connection, a request that has arrived, the end of a client that
\* has its response, and the close of its socket.
ReadyCallback ==
  \/ nInst = 0 /\ StartCommand
  \/ Connect(MaxConns)
  \/ SendsEval
  \/ \E c \in ConnIds : SendsQuick(c)
  \/ \E c \in ConnIds : EndsAnswered(c)
  \/ \E c \in ConnIds : Close(c)

NextIndependent ==
  \/ ReadyCallback
  \/ \E host \in {"ok", "error"} : Resume(1, 1, host)

\* The event loop runs a ready callback whenever there is one; nothing makes
\* the first connection's host call settle.
SpecIndependent ==
  /\ InitWired
  /\ [][NextIndependent]_vars
  /\ WF_vars(ReadyCallback)

\* ================================================================= claims
Last(q) == q[Len(q)]
LastN(q, k) == SubSeq(q, Len(q) - k + 1, Len(q))
Count(q, x) == Cardinality({k \in 1 .. Len(q) : q[k] = x})
NoDuplicates(q) == \A j, k \in 1 .. Len(q) : j # k => q[j] # q[k]

\* Connection c took chunk in this step.
Received(c, chunk) ==
  /\ c \in ConnIds
  /\ conns'[c].received = Append(conns[c].received, chunk)

\* C1: a connection that has received data is written exactly one response:
\* never two and, once its handler has run to the end and the socket is
\* closed, not zero.
C1_ExactlyOneResponse ==
  \A c \in ConnIds :
    /\ Len(conns[c].writes) <= 1
    /\ (~conns[c].open /\ conns[c].received # <<>> /\ conns[c].pending = <<>>)
         => Len(conns[c].writes) = 1

\* The method names a written response spells out.
NamesIn(w) ==
  (IF Has(w, "error") THEN Range(w.error) ELSE {}) \cup
  (IF Has(w, "available") THEN Range(w.available) ELSE {})

\* C2: the response to a request with an unknown method has ok = false and
\* its error payload names every method the dispatcher handles.
C2_UnknownMethodListsAll ==
  \A c \in ConnIds :
    (/\ Len(conns[c].received) = 1
     /\ conns[c].received[1].kind = "json"
     /\ Has(conns[c].received[1].value, "method")
     /\ conns[c].received[1].value.method \notin KnownMethods)
    => /\ Len(conns[c].writes) = 1
       /\ ~conns[c].writes[1].ok
       /\ KnownMethods \subseteq NamesIn(conns[c].writes[1])

\* C3: subscribing a URL that is in the set, and unsubscribing one that is
\* not, leave the set as it is and are answered with success; the set never
\* holds a URL twice.
C3_SubscribeIdempotent ==
  /\ [](\A i \in Inst : NoDuplicates(subscribers[i]))
  /\ [][\A c \in ConnIds : \A u \in Urls :
          LET i == conns[c].inst
              present == u \in Range(subscribers[i])
              Succeeded == /\ conns'[c].writes # <<>>
                           /\ Last(conns'[c].writes).ok
                           /\ Last(conns'[c].writes).result.fields.success
          IN  /\ (present /\ Received(c, Request([method |-> "subscribe", params |-> [url |-> u]])))
                   => (subscribers'[i] = subscribers[i] /\ Succeeded)
              /\ (~present /\ Received(c, Request([method |-> "unsubscribe", params |-> [url |-> u]])))
                   => (subscribers'[i] = subscribers[i] /\ Succeeded)]_vars

\* A URL was subscribed twice in a row and another unsubscribed while absent.
C3_Witness ==
  \E u, v \in Urls :
    /\ u # v
    /\ subscribers[1] = <<u>>
    /\ Count(outputHistory[1], Line("Subscribed", u)) = 2
    /\ Count(outputHistory[1], Line("Unsubscribed", u)) = 0
    /\ Count(outputHistory[1], Line("Subscribed", v)) = 0
    /\ Count(outputHistory[1], Line("Unsubscribed", v)) = 1
    /\ \A c \in ConnIds : Len(conns[c].writes) = 1 /\ conns[c].writes[1].ok

\* The subscribe and unsubscribe calls so far, as the instance logged them.
SubscribeCalls(u) == Count(outputHistory[1], Line("Subscribed", u))
UnsubscribeCalls(u) == Count(outputHistory[1], Line("Unsubscribed", u))
LastCall(u) ==
  LET at == {k \in 1 .. Len(outputHistory[1]) :
               outputHistory[1][k] \in {Line("Subscribed", u), Line("Unsubscribed", u)}}
  IN  IF at = {} THEN "none"
      ELSE outputHistory[1][CHOOSE k \in at : \A j \in at : j <= k][1]

\* C4 as stated: the set is the URLs subscribed an odd number of times, less
\* those unsubscribed.
C4_OddSubscribes ==
  Range(subscribers[1]) =
    {u \in Urls : SubscribeCalls(u) % 2 = 1} \ {u \in Urls : UnsubscribeCalls(u) > 0}

\* C4, amended: the set is the URLs whose latest subscribe or unsubscribe call
\* was a subscribe.
C4_LastCallWins ==
  Range(subscribers[1]) = {u \in Urls : LastCall(u) = "Subscribed"}

\* A URL was subscribed, unsubscribed and subscribed again; another was only
\* unsubscribed.
C4_Witness ==
  \E u, v \in Urls :
    /\ u # v
    /\ SubscribeCalls(u) = 2 /\ UnsubscribeCalls(u) = 1 /\ LastCall(u) = "Subscribed"
    /\ SubscribeCalls(v) = 0 /\ LastCall(v) = "Unsubscribed"
    /\ subscribers[1] = <<u>>

\* Every line appended to the channel since the instance was created, for
\* the runs of SpecBuffer: the start, the script's request, its console.log
\* calls, then the getOutput exchanges.
GetsDone ==
  Cardinality({c \in ConnIds : c > 1 /\ conns[c].received # <<>>})
AllAppended ==
  (IF nInst = 0 THEN <<>> ELSE StartLines(TRUE)) \o
  (IF conns # <<>> /\ conns[1].received # <<>> THEN <<Line("INPUT", "eval")>> ELSE <<>>) \o
  [k \in 1 .. logSeq |-> Line("[eval]", ToString(k))] \o
  [k \in 1 .. 2 * GetsDone |-> IF k % 2 = 1 THEN Line("INPUT", "getOutput")
                                ELSE Line("OUTPUT", "ok")]

\* C5: the output history never holds more than 1000 lines, and after N
\* appended lines it holds the last min(N, 1000) of them in append order.
C5_RingBuffer ==
  /\ \A i \in Inst : Len(outputHistory[i]) <= Capacity
  /\ outputHistory[1] = LastN(AllAppended, Min(Len(AllAppended), Capacity))

\* More than 1000 lines were appended and the oldest are gone.
C5_Witness ==
  /\ Len(AllAppended) > Capacity + 1
  /\ Len(outputHistory[1]) = Capacity
  /\ outputHistory[1][1] = Line("[eval]", "2")
  /\ GetsDone = 1

\* C6: getOutput with a numeric lines value n returns the last
\* min(n, length) retained lines, in order.
C6_GetOutputLastN ==
  [][\A c \in ConnIds : \A n \in GetLines :
       Received(c, Request([method |-> "getOutput", params |-> [lines |-> n]]))
       => LET retained == Push(outputHistory[conns[c].inst], Line("INPUT", "getOutput"))
              w == Last(conns'[c].writes)
          IN  /\ w.ok
              /\ w.result.fields.output = LastN(retained, Min(n, Len(retained)))]_vars

\* An instance whose listen() failed: it never held the port and was never
\* disposed.
BindFailed(i) == i <= nInst /\ ~listening[i] /\ disposeCalls[i] = 0

\* C7: a start that hits a bound port fails for the start command: no handle
\* is recorded as running, and the command does not report a started bridge.
C7_BindErrorReachesCaller ==
  \A i \in Inst :
    BindFailed(i) =>
      /\ bridgeInstance # i
      /\ (i = nInst => lastMessage # "ClarityOS Bridge started on port 9485")

\* An instance is running when it listens or is processing a request.
Running(i) ==
  listening[i] \/ \E c \in ConnIds : conns[c].inst = i /\ conns[c].pending # <<>>

\* C8: there are never two instances listening or processing requests at
\* the same time.
C8_OneInstanceRunning == Cardinality({i \in Inst : Running(i)}) <= 1

\* The promises of instance i that dispose has returned and not yet resolved.
Unresolved(i) == disposeCalls[i] - disposeResolved[i]

\* C9: a promise returned by dispose is resolved only when the server has
\* released the port and has no open connection; one that is not yet
\* resolved is waiting for an open connection to end; and when every peer
\* ends its connection at some time, every promise is resolved at some time.
C9_DisposeResolvesWhenReleased ==
  /\ [](\A i \in Inst :
         /\ disposeResolved[i] > 0 => (~listening[i] /\ OpenConnsOf(conns, i) = {})
         /\ Unresolved(i) >= 0
         /\ Unresolved(i) > 0 => (~listening[i] /\ OpenConnsOf(conns, i) # {}))
  /\ \A i \in Inst : (Unresolved(i) > 0) ~> (Unresolved(i) = 0)

\* The instance was disposed twice while two connections were open.  The
\* first connection got its response and its peer ended it; the second
\* one's peer ended it while its request waited, and the turn in which that
\* socket closed resolved both promises, the second with the error that
\* server.close gives a server which is already closing.
C9_Witness ==
  /\ disposeCalls[1] = 2 /\ disposeResolved[1] = 2
  /\ Len(conns) = 2
  /\ conns[1].delivered = 1 /\ conns[1].peerEnded /\ ~conns[1].open
  /\ conns[2].pending # <<>> /\ conns[2].peerEnded /\ ~conns[2].open
  /\ LET n == Len(outputHistory[1])
     IN  /\ outputHistory[1][n - 1] = Line("Server closed", "")
         /\ outputHistory[1][n] = Line("Error closing server", "")

\* C10: dispose on an instance that is already stopped changes nothing and
\* logs nothing, and its promise resolves.
C10_StopIdempotent ==
  [][\A i \in Inst :
       (disposeResolved[i] > 0 /\ disposeCalls'[i] > disposeCalls[i])
       => /\ outputHistory' = outputHistory
          /\ listening' = listening
          /\ disposeCalls'[i] - disposeResolved'[i] = 0]_vars

\* The fetch calls that this step added, and how many of them went to u.
NewPosts == SubSeq(posts', Len(posts) + 1, Len(posts'))
PostsTo(q, e, u) == Cardinality({k \in 1 .. Len(q) : q[k].event = e /\ q[k].url = u})

\* C11: a broadcast issues exactly one POST to each URL that is in the
\* subscriber set when broadcast is called and none to any other URL, and no
\* later step (a subscribe in particular) adds a POST of that event.
C11_BroadcastSnapshot ==
  [][/\ nEvents' = nEvents + 1 =>
          /\ \A k \in 1 .. Len(NewPosts) : NewPosts[k].event = nEvents + 1
          /\ \A u \in Hooks :
               PostsTo(NewPosts, nEvents + 1, u) =
                 IF u \in Range(subscribers[bridgeInstance]) THEN 1 ELSE 0
     /\ nEvents' = nEvents => NewPosts = <<>>
     /\ \A k \in 1 .. Len(posts) :
          posts'[k].event = posts[k].event /\ posts'[k].url = posts[k].url]_vars

\* The first event went to the one subscriber of its time; a second URL was
\* subscribed afterwards and got the second event only.
C11_Witness ==
  /\ nEvents = 2
  /\ Len(posts) = 3
  /\ posts[1].event = 1 /\ posts[2].event = 2 /\ posts[3].event = 2
  /\ posts[1].url = posts[2].url /\ posts[3].url # posts[1].url
  /\ subscribers[1] = <<posts[2].url, posts[3].url>>

\* The failure lines of the output history, and the POSTs that failed.
FailureLines(u) == Count(outputHistory[1], Line("Broadcast failed to", u))
FailedPosts(u) ==
  Cardinality({k \in 1 .. Len(posts) : posts[k].url = u /\ posts[k].state = "failed"})

\* C12: every failed POST is a line of the output history; a failing POST
\* changes no other POST and no later broadcast; a broadcast call completes
\* and sends to all subscribers whatever has failed before.
C12_BroadcastFailureIsolated ==
  /\ [](\A u \in Hooks : FailureLines(u) = FailedPosts(u))
  /\ [][/\ \A p \in 1 .. Len(posts) :
             (posts[p].state = "sent" /\ posts'[p].state = "failed")
             => /\ \A q \in 1 .. Len(posts) : q # p => posts'[q] = posts[q]
                /\ Len(posts') = Len(posts)
                /\ <<awaiting, nEvents, subscribers, conns>>' =
                     <<awaiting, nEvents, subscribers, conns>>
        /\ (awaiting' < awaiting /\ bridgeInstance # 0)
             => /\ nEvents' = nEvents + 1
                /\ Len(NewPosts) = Len(subscribers[bridgeInstance])]_vars

\* Two broadcasts with two subscribers, one of them unreachable: its two
\* POSTs failed and are logged, the other two arrived.
C12_Witness ==
  /\ nEvents = 2
  /\ Len(subscribers[1]) = 2
  /\ Len(posts) = 4
  /\ \E u \in Hooks :
       /\ FailedPosts(u) = 2 /\ FailureLines(u) = 2
       /\ \A k \in 1 .. Len(posts) :
            posts[k].state = IF posts[k].url = u THEN "failed" ELSE "delivered"

\* C13: a chunk that is not valid JSON is answered at once with
\* {ok:false, error} and the socket is ended; the dispatcher is not invoked
\* (so no 'executing' progress), nothing is left pending, and the subscriber
\* set and the host are left as they were.
C13_MalformedSkipsDispatch ==
  [][\A c \in ConnIds :
       Received(c, BadChunk)
       => /\ Len(conns'[c].writes) = Len(conns[c].writes) + 1
          /\ DOMAIN Last(conns'[c].writes) = {"ok", "error"}
          /\ ~Last(conns'[c].writes).ok
          /\ conns'[c].ended \/ ~conns'[c].open
          /\ conns'[c].dispatched = conns[c].dispatched
          /\ conns'[c].pending = conns[c].pending
          /\ subscribers' = subscribers
          /\ progress' = progress
          /\ hostVars' = hostVars
          /\ managerVars' = managerVars]_vars

\* A connection sent malformed bytes only and got the error response; the
\* hook has seen the start and nothing else.
C13_Witness ==
  \E c \in ConnIds :
    /\ onProgress /\ progress = <<Ready(1)>>
    /\ conns[c].received = <<BadChunk>>
    /\ conns[c].delivered = 1
    /\ conns[c].writes = <<[ok |-> FALSE, error |-> ErrorMsg("SyntaxError: Unexpected token")]>>
    /\ conns[c].ended
    /\ conns[c].dispatched = 0

\* C14: the promise that executeCommand returns is never rejected: whatever
\* the request, the connection handler gets a value from the dispatcher.
C14_DispatchNeverThrows == \A c \in ConnIds : conns[c].rejected = 0

\* C15: subscribe and unsubscribe without a url, whether params is there or
\* not, are answered {ok:false, error:"url parameter required"} and leave the
\* subscriber set as it was.
C15_MissingUrlRejected ==
  [][\A c \in ConnIds : \A m \in {"subscribe", "unsubscribe"} :
       (Received(c, Request([method |-> m])) \/
        Received(c, Request([method |-> m, params |-> <<>>])))
       => /\ Last(conns'[c].writes) = [ok |-> FALSE, error |-> ErrorMsg("url parameter required")]
          /\ subscribers' = subscribers]_vars

\* The acknowledgement of restartExtension.
RestartAck ==
  [ok |-> TRUE,
   result |-> Obj([success |-> TRUE, message |-> <<"Extension host will restart">>])]

\* C17: the handler of restartExtension only schedules the restart; the
\* restart command runs in a later step, when the handler has written the
\* acknowledgement to the socket of the request.
C17_RestartAfterResponse ==
  [][/\ \A c \in ConnIds :
          Received(c, Request([method |-> "restartExtension"])) => restarts' = restarts
     /\ restarts' > restarts =>
          /\ restartQueue # <<>>
          /\ RestartAck \in Range(conns[Head(restartQueue)].writes)]_vars

\* A restart was requested, acknowledged to the client and then executed.
C17_Witness ==
  /\ restarts = 1
  /\ \E c \in ConnIds :
       /\ conns[c].received = <<Request([method |-> "restartExtension"])>>
       /\ conns[c].writes = <<RestartAck>>
       /\ conns[c].delivered = 1

\* The body that the stated rule gives for an input as received: wrapped when
\* it holds no newline, no semicolon and no return keyword, else as it is.
StatedBody(code) ==
  IF IsSingleExpression(code) /\ ~HasExplicitReturn(code) THEN Wrap(code) ELSE code

\* C16: an eval request is answered with what its code yields when it is
\* wrapped exactly if, as received, it has no newline, no semicolon and no
\* return keyword, and run as it is otherwise.
C16_WrapRule ==
  [][\A c \in ConnIds : \A code \in EvalCodes :
       Received(c, EvalRequest(code))
       => LET expected == RunBody(StatedBody(code))
          IN  IF expected.kind = "suspend"
              THEN conns'[c].pending = <<EvalRequest(code).value>> /\ conns'[c].writes = <<>>
              ELSE conns'[c].writes = <<Stringify(ToResponse(expected))>>]_vars

\* Connection c has had its response delivered and its socket is gone.
Served(c) == c \in ConnIds /\ conns[c].delivered = 1 /\ ~conns[c].open

\* C18: a step of one connection leaves every other connection as it is, and
\* from the moment the first connection waits for its host call, whether
\* the call ever settles or not, every other connection is accepted,
\* answered and closed at some time.
C18_ConnectionsIndependent ==
  /\ [][\A c \in ConnIds :
          conns'[c] # conns[c] => \A d \in ConnIds \ {c} : conns'[d] = conns[d]]_vars
  /\ (conns # <<>> /\ conns[1].pending # <<>>) ~> (\A c \in 2 .. MaxConns : Served(c))

\* An eval request is still waiting for the host; the connection that came
\* after it was dispatched, answered and closed.
C18_Witness ==
  /\ Len(conns) = 2
  /\ conns[1].pending = <<EvalAwaits.value>>
  /\ conns[1].writes = <<>>
  /\ conns[2].received = <<Request([method |-> "listSubscribers"])>>
  /\ Served(2)
  /\ outputHistory[1] =
       StartLines(TRUE) \o <<Line("INPUT", "eval"), Line("INPUT", "listSubscribers"),
                             Line("OUTPUT", "ok")>>

\* C19: the list that a subscribe request is answered with holds the URL it
\* added and is the set as it is right after that add; the history never
\* holds more than 1000 lines, and no getOutput response shows more.
C19_AtomicMutations ==
  /\ [](\A i \in Inst : Len(outputHistory[i]) <= Capacity)
  /\ [][\A c \in ConnIds :
          /\ \A u \in Urls :
               Received(c, Request([method |-> "subscribe", params |-> [url |-> u]]))
               => LET w == Last(conns'[c].writes)
                  IN  /\ w.ok
                      /\ u \in Range(w.result.fields.subscribers)
                      /\ w.result.fields.subscribers = subscribers'[conns[c].inst]
                      /\ Range(subscribers'[conns[c].inst]) =
                           Range(subscribers[conns[c].inst]) \cup {u}
          /\ Received(c, Request([method |-> "getOutput", params |-> [lines |-> Capacity + 1]]))
             => LET w == Last(conns'[c].writes)
                IN  /\ w.ok
                    /\ Len(w.result.fields.output) <= Capacity
                    /\ w.result.fields.total <= Capacity]_vars

\* With the history full, one connection subscribed and another read the
\* output, both while the script's request was still open.
C19_Witness ==
  /\ logSeq = MaxAppends
  /\ Len(conns) = 3
  /\ conns[1].pending # <<>>
  /\ \E c, d \in {2, 3} :
       /\ conns[c].delivered = 1 /\ conns[d].delivered = 1
       /\ conns[c].received[1].value.method = "subscribe"
       /\ conns[c].writes[1].result.fields.subscribers = <<"u1">>
       /\ conns[d].received[1].value.method = "getOutput"
       /\ Len(conns[d].writes[1].result.fields.output) = Capacity
       /\ conns[d].writes[1].result.fields.total = Capacity

\* The line that the socket's 'error' handler logs for a transport error.
TransportErrorLine == Line("SOCKET ERROR", "transport")

\* The SOCKET ERROR lines in a history, and the transport errors that the
\* first n connections have had.
ErrorLines(h) ==
  Count(h, TransportErrorLine) + Count(h, Line("SOCKET ERROR", "write after end"))
RECURSIVE ErrorsOf(_, _)
ErrorsOf(cs, n) == IF n = 0 THEN 0 ELSE cs[n].errors + ErrorsOf(cs, n - 1)
RECURSIVE ErrorsLogged(_, _)
ErrorsLogged(hist, n) ==
  IF n = 0 THEN 0 ELSE ErrorLines(hist[n]) + ErrorsLogged(hist, n - 1)

\* C20: every transport error is in the output history, one line each; the
\* step in which a connection has a transport error destroys its socket,
\* delivers nothing on it, and leaves the listening state, the subscribers
\* and every other connection as they are; a connection is delivered at most
\* one response, and none after a transport error.
C20_SocketErrorContained ==
  /\ [](/\ ErrorsLogged(outputHistory, MaxStarts) = ErrorsOf(conns, Len(conns))
        /\ \A c \in ConnIds : conns[c].delivered <= 1)
  /\ [][\A c \in ConnIds :
          /\ conns'[c].errors > conns[c].errors
             => /\ ~conns'[c].open
                /\ conns'[c].delivered = conns[c].delivered
                /\ \A d \in ConnIds \ {c} : conns'[d] = conns[d]
                /\ listening' = listening
                /\ subscribers' = subscribers
                /\ ErrorLines(outputHistory'[nInst]) = ErrorLines(outputHistory[nInst]) + 1
          /\ conns[c].errors > 0 => conns'[c].delivered = conns[c].delivered]_vars

\* The first connection's peer ended while its eval waited, and the write
\* of its response failed; the server went on listening and answered the
\* second connection, which then had a transport error of its own and kept
\* its one response.
C20_Witness ==
  /\ Len(conns) = 2
  /\ listening[1]
  /\ conns[1].peerEnded /\ ~conns[1].open
  /\ conns[1].errors = 1 /\ conns[1].delivered = 0 /\ Len(conns[1].writes) = 1
  /\ ~conns[2].open /\ ~conns[2].peerEnded
  /\ conns[2].errors = 1 /\ conns[2].delivered = 1 /\ conns[2].writes[1].ok
  /\ ErrorLines(outputHistory[1]) = 2
  /\ \E k \in 1 .. Len(outputHistory[1]) - 3 :
       /\ outputHistory[1][k] = TransportErrorLine
       /\ outputHistory[1][k + 1] = Line("INPUT", "listSubscribers")
       /\ outputHistory[1][k + 2] = Line("OUTPUT", "ok")
       /\ outputHistory[1][k + 3] = TransportErrorLine

\* The state of a connection in the diagram of the bridge: CONNECTED until a
\* request is being processed, RESPONDING once a response has been written,
\* CLOSED when the socket is gone.
ConnState(cn) ==
  IF ~cn.open THEN 4
  ELSE IF cn.pending # <<>> THEN 2
  ELSE IF cn.writes # <<>> THEN 3
  ELSE 1

\* C21: a connection has at most one request dispatched, and its state only
\* moves forward: data that arrives after the first parsed request starts no
\* second dispatch and no return to PROCESSING.
C21_OneExchangeForward ==
  /\ [](\A c \in ConnIds : conns[c].dispatched <= 1)
  /\ [][\A c \in ConnIds : ConnState(conns'[c]) >= ConnState(conns[c])]_vars

\* Instance i has been stopped and has nothing left to do: it holds no port,
\* no connection of it is open and every dispose promise is resolved.
Retired(i) ==
  /\ i <= nInst
  /\ disposeCalls[i] > 0
  /\ disposeResolved[i] = disposeCalls[i]
  /\ ~listening[i]
  /\ OpenConnsOf(conns, i) = {}
  /\ \A c \in ConnIds : conns[c].inst = i => conns[c].pending = <<>>

\* C22: the subscriber set and the output buffer of an instance change only
\* by that instance's own operations: once an instance is stopped and has
\* nothing left to do, a later start and the instance it creates leave its
\* buffer and its subscribers as they are.
C22_HandleOwnsBuffer ==
  [][\A i \in Inst :
       Retired(i) => /\ outputHistory'[i] = outputHistory[i]
                     /\ subscribers'[i] = subscribers[i]]_vars

\* The URLs that the requests received by instance i subscribed.
SubscribedAt(i) ==
  {u \in Urls : \E c \in ConnIds :
     /\ conns[c].inst = i
     /\ Request([method |-> "subscribe", params |-> [url |-> u]]) \in Range(conns[c].received)}

\* C23: a started server begins with an empty subscriber set, whatever was
\* subscribed before; its set only holds URLs that were subscribed on it; and
\* a broadcast posts only to the set of the instance recorded as running.
C23_SubscribersNotPersisted ==
  /\ [](\A i \in Inst : Range(subscribers[i]) \subseteq SubscribedAt(i))
  /\ [][/\ nInst' = nInst + 1 => subscribers'[nInst'] = <<>>
        /\ nEvents' = nEvents + 1 =>
             \A k \in 1 .. Len(NewPosts) :
               /\ NewPosts[k].inst = bridgeInstance
               /\ NewPosts[k].url \in Range(subscribers[bridgeInstance])]_vars

\* A URL was subscribed and got the first event; after a stop and a start
\* the second event was broadcast by the new instance and went to nobody.
C23_Witness ==
  /\ nInst = 2 /\ bridgeInstance = 2
  /\ subscribers[1] # <<>>
  /\ subscribers[2] = <<>>
  /\ nEvents = 2
  /\ Len(posts) = 1
  /\ posts[1].inst = 1 /\ posts[1].event = 1 /\ posts[1].url \in Range(subscribers[1])

\* The events of one kind in the progress of instance i, and the request
\* objects that the connections of instance i have handed to the dispatcher.
ExecutingEvents(i, m) ==
  Cardinality({k \in 1 .. Len(progress) :
                 progress[k] = [inst |-> i, type |-> "executing", method |-> m]})
ReadyEvents(i) == Count(progress, Ready(i))
RequestsOf(i, m) ==
  Cardinality({<<c, j>> \in ConnIds \X (1 .. MaxChunks) :
                 /\ conns[c].inst = i
                 /\ j <= Len(conns[c].received)
                 /\ conns[c].received[j].kind = "json"
                 /\ Executing(i, conns[c].received[j].value).method = m})

\* C24: with a hook in the config, each request object handed to the
\* dispatcher gives one 'executing' event with its method, in the step that
\* takes the request and also when the handler then throws or waits;
\* malformed and null payloads, the end of an awaited call and every other
\* step give none.  A start gives one 'ready' event with the port exactly
\* when its listen succeeded.  Without a hook no event goes anywhere.
C24_ProgressFollowsTransitions ==
  /\ [](~onProgress => progress = <<>>)
  /\ [](onProgress =>
          \A i \in Inst :
            /\ \A m \in KnownMethods \cup {"bogus", "undefined"} :
                 ExecutingEvents(i, m) = RequestsOf(i, m)
            /\ ReadyEvents(i) <= 1
            /\ listening[i] => ReadyEvents(i) = 1)
  /\ [][/\ \A c \in ConnIds : \A chunk \in PortChunks :
             Received(c, chunk) =>
               progress' = IF onProgress /\ chunk.kind = "json"
                           THEN Append(progress, Executing(conns[c].inst, chunk.value))
                           ELSE progress
        /\ nInst' = nInst + 1 =>
             progress' = IF onProgress /\ listening'[nInst']
                         THEN Append(progress, Ready(nInst'))
                         ELSE progress
        /\ (nInst' = nInst /\ \A c \in ConnIds : conns'[c].received = conns[c].received)
             => progress' = progress]_vars

\* The first start bound the port: one 'ready'.  A subscribe without params
\* threw and an eval is waiting: one 'executing' each.  The second start
\* found the port taken by another process: no 'ready' for it.
C24_Witness ==
  /\ onProgress
  /\ nInst = 2 /\ bridgeInstance = 2 /\ portOther /\ ~listening[2]
  /\ progress = <<Ready(1), Executing(1, [method |-> "subscribe"]),
                  Executing(1, EvalAwaits.value)>>
  /\ \E c, d \in ConnIds :
       /\ conns[c].received = <<Request([method |-> "subscribe"])>>
       /\ conns[c].writes = <<[ok |-> FALSE, error |-> TypeErrorMsg]>>
       /\ conns[d].pending = <<EvalAwaits.value>>

\* C25: a terminal-change listener never reaches its broadcast call with no
\* bridge instance recorded, whatever ran while it waited for the process id.
C25_ListenerNeverDereferencesUndefined == unhandled = 0

\* C26: while no bridge is recorded as running no instance holds the port,
\* and only the recorded instance ever holds it; so a start after a stop
\* binds the port unless another process holds it.
C26_PortFreeAfterStop ==
  /\ [](\A i \in Inst : listening[i] => bridgeInstance = i)
  /\ [][nInst' = nInst + 1 => (listening'[nInst'] <=> ~portOther)]_vars

\* The first instance was stopped while a connection to it was still open,
\* so its close has not completed; the second start bound the port.
C26_Witness ==
  /\ nInst = 2 /\ bridgeInstance = 2 /\ listening[2] /\ ~listening[1]
  /\ disposeCalls[1] = 1 /\ disposeResolved[1] = 0
  /\ \E c \in ConnIds : conns[c].inst = 1 /\ conns[c].open /\ conns[c].pending # <<>>
  /\ lastMessage = "ClarityOS Bridge started on port 9485"

\* C27: the tag of a response tells how the handler ended; in particular an
\* eval whose code runs to its end without throwing is answered ok = true
\* with the value it returned, and one whose code throws is answered
\* ok = false.
C27_TagReflectsOutcome ==
  [][\A c \in ConnIds : \A code \in EvalCodes :
       Received(c, EvalRequest(code))
       => LET r == RunBody(EvalBody(code))
              w == Last(conns'[c].writes)
          IN  /\ r.kind = "return" =>
                   (w.ok /\ (r.value # Undef => w.result = r.value))
              /\ r.kind = "throw" => ~w.ok]_vars

\* The view whose open request connection c handed in, in this step.
OpenRequested(c, v) ==
  Received(c, Request([method |-> "webview", params |-> [viewName |-> v]]))

\* C28: opening a view that is open creates nothing; closing the panel of a
\* view (the host's disposal of everything at deactivation aside) removes the
\* watchers of that view and leaves every watcher of every other open view in
\* place.
C28_PanelOwnsItsWatchers ==
  [][\A v \in ViewNames :
       /\ (v \in panels /\ \E c \in ConnIds : OpenRequested(c, v))
            => (panels' = panels /\ watchers' = watchers)
       /\ (v \in panels /\ v \notin panels' /\ phase' = phase)
            => /\ panels' = panels \ {v}
               /\ WatcherKeys(v) \cap watchers' = {}
               /\ \A w \in panels \ {v} :
                    WatcherKeys(w) \cap watchers' = WatcherKeys(w) \cap watchers]_vars

\* The names that are keys of the registry file.
Registered == {registry[k].name : k \in 1 .. Len(registry)}

\* Every instance of name that is no longer the active one has had its
\* dispose called and its watcher closed, once each.
ReleasedOnce(n) ==
  LET past == 1 .. (loads[n] - (IF activeConfigs[n].id # 0 THEN 1 ELSE 0))
  IN  /\ disposals[n] = closes[n]
      /\ NoDuplicates(disposals[n])
      /\ Range(disposals[n]) = past

\* A name has no active instance or its newest one, and the others are
\* released.
InstancesReleasedOnce ==
  \A n \in ConfigNames : activeConfigs[n].id \in {0, loads[n]} /\ ReleasedOnce(n)

\* C29: a name has at most one active instance, the newest one; every
\* replaced or removed instance was disposed and its watcher closed exactly
\* once, before the next one was activated; and unregister of a name that is
\* not in the registry is answered with an error and changes nothing.
C29_RegistryConsistent ==
  /\ []InstancesReleasedOnce
  /\ [][\A c \in ConnIds : \A n \in ConfigNames :
          (/\ n \notin Registered
           /\ Received(c, Request([method |-> "unregisterConfig", params |-> [name |-> n]])))
          => /\ ~Last(conns'[c].writes).ok
             /\ managerVars' = managerVars]_vars
====
